---- MODULE Spec2Model ----
(***************************************************************************)
(* The Job repository of express-jobly (models/jobs.js) and its routes,    *)
(* over a relational store holding the tables jobs and companies.          *)
(*                                                                         *)
(* Values.  A JavaScript value that is undefined or null, and an SQL NULL, *)
(* is the empty tuple Null; a present value v is the one-element tuple     *)
(* <<v>>.  Row ids are plain integers.  A title is a sequence of           *)
(* characters, so that ILIKE can look inside it.  An equity is counted in  *)
(* hundredths: <<1>> is 0.01 and <<100>> is 1.                             *)
(***************************************************************************)
EXTENDS Integers, Sequences, FiniteSets, TLC

VARIABLES
    jobs,       \* the rows of table jobs
    seq,        \* last value handed out by the serial sequence of jobs.id
    companies,  \* the rows of table companies
    getReq,     \* the get() that is suspended between its two lookups
    last,       \* outcome of the operation that completed most recently
    created,    \* history: id -> creation input, for jobs untouched since
    removed     \* history: ids a remove() has deleted

vars == <<jobs, seq, companies, getReq, last, created, removed>>

\* Number of INSERTs the sequence serves.
MaxId == 2

Null == <<>>

Field(obj, k) == IF k \in DOMAIN obj THEN obj[k] ELSE Null

-----------------------------------------------------------------------------
(* Failures *)

OK == [name |-> "none", status |-> 0]
NotFoundError == [name |-> "NotFoundError", status |-> 404]
BadRequestError == [name |-> "BadRequestError", status |-> 400]
UnauthorizedError == [name |-> "UnauthorizedError", status |-> 401]
ExpressError(status) == [name |-> "ExpressError", status |-> status]
TypeError == [name |-> "TypeError", status |-> 0]
\* A failure raised by the store; it carries no HTTP status.
DbError(condition) == [name |-> condition, status |-> 0]

-----------------------------------------------------------------------------
(* The store *)

JobColumns == {"id", "title", "salary", "equity", "company_handle"}

\* The store folds an alias that is not double-quoted to lower case.  Of the
\* identifiers the statements use, companyHandle alone has an upper-case letter.
FoldIdent(ident) == IF ident = "companyHandle" THEN "companyhandle" ELSE ident

ResultKey(item) == IF item.quoted THEN item.alias ELSE FoldIdent(item.alias)

\* The record the driver builds for one row and a list of output columns.
Returning(row, list) ==
    [k \in {ResultKey(list[i]) : i \in DOMAIN list} |->
        LET i == CHOOSE j \in DOMAIN list : ResultKey(list[j]) = k
        IN  row[list[i].col]]

Col(c) == [col |-> c, alias |-> c, quoted |-> FALSE]
ColAs(c, a, q) == [col |-> c, alias |-> a, quoted |-> q]

\* Constraints of table jobs on a row, given the other rows of the table.
RowViolation(row, others, comps) ==
    CASE row.title = Null -> DbError("not_null_violation")
      [] row.company_handle = Null -> DbError("not_null_violation")
      [] \E r \in others : r.id = row.id -> DbError("unique_violation")
      [] ~ \E c \in comps : <<c.handle>> = row.company_handle ->
            DbError("foreign_key_violation")
      [] OTHER -> OK

\* INSERT INTO jobs (title, salary, equity, company_handle) VALUES ($1..$4):
\* the id is the next value of the sequence, consumed even when the row is refused.
ExecInsert(tbl, comps, nextval, stmt) ==
    LET row == [id |-> nextval,
                title |-> stmt.params[1],
                salary |-> stmt.params[2],
                equity |-> stmt.params[3],
                company_handle |-> stmt.params[4]]
        err == RowViolation(row, tbl, comps)
    IN  [err |-> err,
         rows |-> IF err = OK THEN <<Returning(row, stmt.returning)>> ELSE <<>>,
         table |-> IF err = OK THEN tbl \cup {row} ELSE tbl]

\* SELECT ... FROM jobs WHERE id = $1
ExecSelectJob(tbl, stmt) ==
    LET hit == {r \in tbl : r.id = stmt.params[1]}
    IN  IF hit = {} THEN <<>>
        ELSE <<Returning(CHOOSE r \in hit : TRUE, stmt.returning)>>

\* SELECT ... FROM companies WHERE handle = $1
ExecSelectCompany(comps, stmt) ==
    LET hit == {c \in comps : <<c.handle>> = stmt.params[1]}
    IN  IF hit = {} THEN <<>>
        ELSE <<Returning(CHOOSE c \in hit : TRUE, stmt.returning)>>

\* DELETE FROM jobs WHERE id = $1 RETURNING id
ExecDelete(tbl, stmt) ==
    LET hit == {r \in tbl : r.id = stmt.params[1]}
    IN  [rows |-> IF hit = {} THEN <<>>
                  ELSE <<Returning(CHOOSE r \in hit : TRUE, stmt.returning)>>,
         table |-> tbl \ hit]

\* The value a SET clause gives a column: the id column holds a plain integer.
Assigned(c, v) == IF c = "id" THEN v[1] ELSE v

\* A row after the assignments of a SET clause, applied left to right.
RECURSIVE ApplySet(_, _, _)
ApplySet(row, set, params) ==
    IF set = <<>> THEN row
    ELSE ApplySet([row EXCEPT ![Head(set).col] = Assigned(Head(set).col, params[Head(set).ph])],
                  Tail(set), params)

\* UPDATE jobs SET ... WHERE id = $n RETURNING ...: a column the table lacks
\* fails the statement whatever the WHERE clause matches; constraints are
\* checked on the rows the statement writes.
ExecUpdate(tbl, comps, stmt) ==
    LET hit == {r \in tbl : r.id = stmt.params[stmt.idPh]}
        unknown == \E i \in DOMAIN stmt.set : stmt.set[i].col \notin JobColumns
        idNull == \E i \in DOMAIN stmt.set :
                      stmt.set[i].col = "id" /\ stmt.params[stmt.set[i].ph] = Null
        old == CHOOSE r \in hit : TRUE
        new == ApplySet(old, stmt.set, stmt.params)
        err == IF unknown THEN DbError("undefined_column")
               ELSE IF hit = {} THEN OK
               ELSE IF idNull THEN DbError("not_null_violation")
               ELSE RowViolation(new, tbl \ hit, comps)
    IN  [err |-> err,
         rows |-> IF err = OK /\ hit # {} THEN <<Returning(new, stmt.returning)>> ELSE <<>>,
         table |-> IF err = OK /\ hit # {} THEN (tbl \ hit) \cup {new} ELSE tbl]

-----------------------------------------------------------------------------
(* The store: the SELECT of findAll *)

UpperCase == <<"A","B","C","D","E","F","G","H","I","J","K","L","M",
               "N","O","P","Q","R","S","T","U","V","W","X","Y","Z">>
LowerCase == <<"a","b","c","d","e","f","g","h","i","j","k","l","m",
               "n","o","p","q","r","s","t","u","v","w","x","y","z">>

LowerChar(c) ==
    IF \E i \in DOMAIN UpperCase : UpperCase[i] = c
    THEN LowerCase[CHOOSE i \in DOMAIN UpperCase : UpperCase[i] = c]
    ELSE c

LowerSeq(s) == [i \in DOMAIN s |-> LowerChar(s[i])]

\* s LIKE p: % stands for any run of characters, _ for any one character.
RECURSIVE Like(_, _)
Like(s, p) ==
    IF p = <<>> THEN s = <<>>
    ELSE IF Head(p) = "%" THEN Like(s, Tail(p)) \/ (s # <<>> /\ Like(Tail(s), p))
    ELSE IF Head(p) = "_" THEN s # <<>> /\ Like(Tail(s), Tail(p))
    ELSE s # <<>> /\ Head(s) = Head(p) /\ Like(Tail(s), Tail(p))

ILike(s, p) == Like(LowerSeq(s), LowerSeq(p))

\* One condition of a WHERE clause on a row; a comparison with NULL is not true.
CondHolds(row, cond, params) ==
    LET operand == IF cond.ph = 0 THEN <<cond.lit>> ELSE params[cond.ph]
        v == row[cond.col]
    IN  /\ v # Null
        /\ operand # Null
        /\ CASE cond.op = ">=" -> v[1] >= operand[1]
             [] cond.op = ">" -> v[1] > operand[1]
             [] cond.op = "ILIKE" -> ILike(v[1], operand[1])

\* Code-point order of characters: upper case before lower case.
CharRank(c) ==
    IF \E i \in DOMAIN UpperCase : UpperCase[i] = c
    THEN CHOOSE i \in DOMAIN UpperCase : UpperCase[i] = c
    ELSE IF \E i \in DOMAIN LowerCase : LowerCase[i] = c
    THEN Len(UpperCase) + (CHOOSE i \in DOMAIN LowerCase : LowerCase[i] = c)
    ELSE 0

RECURSIVE TitleLeq(_, _)
TitleLeq(s, t) ==
    IF s = <<>> THEN TRUE
    ELSE IF t = <<>> THEN FALSE
    ELSE IF Head(s) = Head(t) THEN TitleLeq(Tail(s), Tail(t))
    ELSE CharRank(Head(s)) < CharRank(Head(t))

\* ORDER BY title
RECURSIVE OrderByTitle(_)
OrderByTitle(rows) ==
    IF rows = {} THEN <<>>
    ELSE LET first == CHOOSE r \in rows :
                          \A o \in rows : TitleLeq(r.title[1], o.title[1])
         IN  <<first>> \o OrderByTitle(rows \ {first})

\* A select list is output columns separated by single commas.
SelectListOk(tokens) ==
    /\ Len(tokens) % 2 = 1
    /\ \A i \in DOMAIN tokens : (tokens[i].col = ",") <=> (i % 2 = 0)

SelectItems(tokens) == SelectSeq(tokens, LAMBDA t : t.col # ",")

\* SELECT <list> FROM jobs [WHERE ...] ORDER BY title: a statement the parser
\* refuses returns no rows.
ExecSelectJobs(tbl, stmt) ==
    IF ~ SelectListOk(stmt.select)
    THEN [err |-> DbError("syntax_error"), rows |-> <<>>]
    ELSE LET hit == {r \in tbl : \A i \in DOMAIN stmt.where :
                                     CondHolds(r, stmt.where[i], stmt.params)}
             sorted == OrderByTitle(hit)
         IN  [err |-> OK,
              rows |-> [i \in DOMAIN sorted |->
                           Returning(sorted[i], SelectItems(stmt.select))]]

-----------------------------------------------------------------------------
(* helpers/sql.js: the partial-update builder *)

\* The column a key of the patch names: the table's entry, else the key itself.
ColumnOf(key, jsToSql) == IF key \in DOMAIN jsToSql THEN jsToSql[key] ELSE key

\* dataToUpdate is the patch as its <<key, value>> entries in insertion order.
sqlForPartialUpdate(dataToUpdate, jsToSql) ==
    [err |-> IF dataToUpdate = <<>> THEN BadRequestError ELSE OK,
     setCols |-> [i \in DOMAIN dataToUpdate |->
                    [col |-> ColumnOf(dataToUpdate[i][1], jsToSql), ph |-> i]],
     values |-> [i \in DOMAIN dataToUpdate |-> dataToUpdate[i][2]]]

\* update() hands the builder the patch alone: no name-translation table.
NoTable == <<>>

-----------------------------------------------------------------------------
(* models/jobs.js: the statements *)

createQuery(data) ==
    [kind |-> "insert",
     params |-> <<Field(data, "title"), Field(data, "salary"),
                  Field(data, "equity"), Field(data, "companyHandle")>>,
     returning |-> <<Col("id"), Col("title"), Col("salary"), Col("equity"),
                     ColAs("company_handle", "companyHandle", TRUE)>>]

getJobQuery(id) ==
    [kind |-> "selectJob",
     params |-> <<id>>,
     returning |-> <<Col("id"), Col("title"), Col("salary"), Col("equity"),
                     ColAs("company_handle", "companyHandle", TRUE)>>]

\* the lookup keyed by the column's name, which the job read does not carry
getCompanyQueryByColumn(job) ==
    [kind |-> "selectCompany",
     params |-> <<Field(job, "company_handle")>>,
     returning |-> <<Col("handle"), Col("name"), Col("description"),
                     ColAs("num_employees", "numEmployees", TRUE),
                     ColAs("logo_url", "logoUrl", TRUE)>>]

getCompanyQuery(job) ==
    [kind |-> "selectCompany",
     params |-> <<job.companyHandle>>,
     returning |-> <<Col("handle"), Col("name"), Col("description"),
                     ColAs("num_employees", "numEmployees", TRUE),
                     ColAs("logo_url", "logoUrl", TRUE)>>]

\* the enrichment without its delete: the raw companyHandle stays on the job
getEnrichKeepsHandle(job, companyRows) ==
    [k \in DOMAIN job \cup {"company"} |->
        IF k = "company"
        THEN (IF companyRows = <<>> THEN Null ELSE <<companyRows[1]>>)
        ELSE job[k]]

\* delete job.companyHandle; job.company = companyRes.rows[0]
getEnrich(job, companyRows) ==
    [k \in (DOMAIN job \ {"companyHandle"}) \cup {"company"} |->
        IF k = "company"
        THEN (IF companyRows = <<>> THEN Null ELSE <<companyRows[1]>>)
        ELSE job[k]]

updateQuery(id, data) ==
    LET built == sqlForPartialUpdate(data, NoTable)
        idVarIdx == Len(built.values) + 1
    IN  [kind |-> "update",
         set |-> built.setCols,
         idPh |-> idVarIdx,
         params |-> built.values \o <<id>>,
         returning |-> <<Col("id"), Col("title"), Col("salary"), Col("equity"),
                         ColAs("company_handle", "companyHandle", FALSE)>>]

removeQuery(id) ==
    [kind |-> "delete", params |-> <<id>>, returning |-> <<Col("id")>>]

Comma == Col(",")

\* findAll without its check of minSalary
findAllRejectsNothing(searchFilters) == FALSE

\* if (minSalary < 0) throw new ExpressError("Invalid Constraints", 400)
findAllRejects(searchFilters) ==
    /\ Field(searchFilters, "minSalary") # Null
    /\ Field(searchFilters, "minSalary")[1] < 0

\* the title's placeholder numbered by the conditions so far, not by the values
findAllQueryCountsConditions(searchFilters) ==
    LET title == Field(searchFilters, "title")
        minSalary == Field(searchFilters, "minSalary")
        hasEquity == Field(searchFilters, "hasEquity")
        val1 == IF minSalary # Null THEN <<minSalary>> ELSE <<>>
        exp1 == IF minSalary # Null
                THEN <<[col |-> "salary", op |-> ">=", ph |-> Len(val1), lit |-> 0]>>
                ELSE <<>>
        exp2 == IF hasEquity = <<TRUE>>
                THEN exp1 \o <<[col |-> "equity", op |-> ">", ph |-> 0, lit |-> 0]>>
                ELSE exp1
        val3 == IF title # Null
                THEN val1 \o << <<(<<"%">> \o title[1]) \o <<"%">>>> >>
                ELSE val1
        exp3 == IF title # Null
                THEN exp2 \o <<[col |-> "title", op |-> "ILIKE", ph |-> Len(exp2) + 1, lit |-> 0]>>
                ELSE exp2
    IN  [kind |-> "selectJobs",
         select |-> <<Col("title"), Comma, Col("salary"), Comma, Col("equity"), Comma,
                      ColAs("company_handle", "companyHandle", TRUE), Comma>>,
         where |-> exp3,
         params |-> val3]

findAllQuery(searchFilters) ==
    LET title == Field(searchFilters, "title")
        minSalary == Field(searchFilters, "minSalary")
        hasEquity == Field(searchFilters, "hasEquity")
        val1 == IF minSalary # Null THEN <<minSalary>> ELSE <<>>
        exp1 == IF minSalary # Null
                THEN <<[col |-> "salary", op |-> ">=", ph |-> Len(val1), lit |-> 0]>>
                ELSE <<>>
        exp2 == IF hasEquity = <<TRUE>>
                THEN exp1 \o <<[col |-> "equity", op |-> ">", ph |-> 0, lit |-> 0]>>
                ELSE exp1
        val3 == IF title # Null
                THEN val1 \o << <<(<<"%">> \o title[1]) \o <<"%">>>> >>
                ELSE val1
        exp3 == IF title # Null
                THEN exp2 \o <<[col |-> "title", op |-> "ILIKE", ph |-> Len(val3), lit |-> 0]>>
                ELSE exp2
    IN  [kind |-> "selectJobs",
         select |-> <<Col("title"), Comma, Col("salary"), Comma, Col("equity"), Comma,
                      ColAs("company_handle", "companyHandle", TRUE), Comma>>,
         where |-> exp3,
         params |-> val3]

-----------------------------------------------------------------------------
(* models/jobs.js: the operations.  One action is one store round trip, or  *)
(* an operation that fails before its first one.                            *)

Idle == [pc |-> "idle"]

Without(f, k) == [x \in DOMAIN f \ {k} |-> f[x]]

\* An operation that throws without reaching the store.
Throws(op, args, err) ==
    /\ last' = [op |-> op, args |-> args, err |-> err, value |-> Null, stmts |-> <<>>]
    /\ UNCHANGED <<jobs, seq, companies, getReq, created, removed>>

create(data) ==
    /\ seq < MaxId
    /\ LET stmt == createQuery(data)
           res == ExecInsert(jobs, companies, seq + 1, stmt)
       IN  /\ jobs' = res.table
           /\ seq' = seq + 1
           /\ last' = [op |-> "create", args |-> [data |-> data], err |-> res.err,
                       value |-> IF res.err = OK THEN res.rows[1] ELSE Null,
                       stmts |-> <<stmt>>]
           /\ created' = IF res.err = OK THEN (seq + 1 :> data) @@ created ELSE created
    /\ UNCHANGED <<companies, getReq, removed>>

findAll(searchFilters) ==
    IF findAllRejects(searchFilters)
    THEN Throws("findAll", [searchFilters |-> searchFilters], ExpressError(400))
    ELSE LET stmt == findAllQuery(searchFilters)
             res == ExecSelectJobs(jobs, stmt)
         IN  /\ last' = [op |-> "findAll", args |-> [searchFilters |-> searchFilters],
                         err |-> res.err, value |-> res.rows, stmts |-> <<stmt>>]
             /\ UNCHANGED <<jobs, seq, companies, getReq, created, removed>>

\* get(), first lookup: the Job row.
getJob(id) ==
    /\ getReq = Idle
    /\ LET stmt == getJobQuery(id)
           rows == ExecSelectJob(jobs, stmt)
       IN  IF rows = <<>>
           THEN /\ last' = [op |-> "get", args |-> [id |-> id], err |-> NotFoundError,
                            value |-> Null, stmts |-> <<stmt>>]
                /\ UNCHANGED getReq
           ELSE /\ getReq' = [pc |-> "company", id |-> id, job |-> rows[1], stmt |-> stmt,
                              input |-> IF id \in DOMAIN created
                                        THEN <<created[id]>> ELSE Null]
                /\ UNCHANGED last
    /\ UNCHANGED <<jobs, seq, companies, created, removed>>

\* get(), second lookup: the Company row of the job read by the first.
getCompany ==
    /\ getReq # Idle
    /\ LET stmt == getCompanyQuery(getReq.job)
           rows == ExecSelectCompany(companies, stmt)
       IN  last' = [op |-> "get", args |-> [id |-> getReq.id], err |-> OK,
                    value |-> getEnrich(getReq.job, rows),
                    stmts |-> <<getReq.stmt, stmt>>,
                    read |-> getReq.job, input |-> getReq.input]
    /\ getReq' = Idle
    /\ UNCHANGED <<jobs, seq, companies, created, removed>>

update(id, data) ==
    IF sqlForPartialUpdate(data, NoTable).err # OK
    THEN Throws("update", [id |-> id, data |-> data], sqlForPartialUpdate(data, NoTable).err)
    ELSE LET stmt == updateQuery(id, data)
             res == ExecUpdate(jobs, companies, stmt)
             err == IF res.err # OK THEN res.err
                    ELSE IF res.rows = <<>> THEN NotFoundError ELSE OK
         IN  /\ jobs' = res.table
             /\ last' = [op |-> "update", args |-> [id |-> id, data |-> data], err |-> err,
                         value |-> IF err = OK THEN res.rows[1] ELSE Null,
                         stmts |-> <<stmt>>]
             /\ created' = IF err = OK THEN Without(created, id) ELSE created
             /\ UNCHANGED <<seq, companies, getReq, removed>>

remove(id) ==
    LET stmt == removeQuery(id)
        res == ExecDelete(jobs, stmt)
        err == IF res.rows = <<>> THEN NotFoundError ELSE OK
    IN  /\ jobs' = res.table
        /\ last' = [op |-> "remove", args |-> [id |-> id], err |-> err,
                    value |-> Null, stmts |-> <<stmt>>]
        /\ created' = IF err = OK THEN Without(created, id) ELSE created
        /\ removed' = IF err = OK THEN removed \cup {id} ELSE removed
        /\ UNCHANGED <<seq, companies, getReq>>

-----------------------------------------------------------------------------
(* routes/jobs.js *)

\* middleware/auth.js
ensureIsAdmin(user) == user.isAdmin

InRange(v, lo, hi) == v = Null \/ (lo <= v[1] /\ v[1] <= hi)

\* schemas/jobNew.json: title and companyHandle required, salary not negative,
\* equity within [0, 1].
jobNewSchema(body) ==
    /\ Field(body, "title") # Null
    /\ Field(body, "companyHandle") # Null
    /\ Field(body, "salary") = Null \/ Field(body, "salary")[1] >= 0
    /\ InRange(Field(body, "equity"), 0, 100)

\* schemas/jobUpdate.json: the same ranges on the fields a patch carries.
jobUpdateSchema(body) ==
    \A i \in DOMAIN body :
        /\ body[i][1] = "salary" => (body[i][2] = Null \/ body[i][2][1] >= 0)
        /\ body[i][1] = "equity" => InRange(body[i][2], 0, 100)

\* a POST route that never throws on an invalid body
postRejectsNothing(body) == FALSE

\* if (!validator.valid) throw new BadRequestError(errs)
postRejects(body) == ~ jobNewSchema(body)

patchRejects(body) == ~ jobUpdateSchema(body)

routerPost(user, body) ==
    IF ~ ensureIsAdmin(user) THEN Throws("create", [data |-> body], UnauthorizedError)
    ELSE IF postRejects(body) THEN Throws("create", [data |-> body], BadRequestError)
    ELSE create(body)

\* const query = res.query: the response has no query, and reading
\* query.minSalary throws before findAll is called.
routerGetAll ==
    Throws("findAll", [searchFilters |-> Null], TypeError)

routerGet(id) == getJob(id)

routerGetResume == getCompany

routerPatch(user, id, body) ==
    IF ~ ensureIsAdmin(user)
    THEN Throws("update", [id |-> id, data |-> body], UnauthorizedError)
    ELSE IF patchRejects(body)
    THEN Throws("update", [id |-> id, data |-> body], BadRequestError)
    ELSE update(id, body)

routerDelete(user, id) ==
    IF ~ ensureIsAdmin(user) THEN Throws("remove", [id |-> id], UnauthorizedError)
    ELSE remove(id)

-----------------------------------------------------------------------------
(* Inputs *)

TEng == <<"E", "n", "g">>
TPen == <<"p", "e", "n">>
TArt == <<"A", "r", "t">>

CompanyRows ==
    {[handle |-> "acme", name |-> "Acme Corp", description |-> "Anvils",
      num_employees |-> <<10>>, logo_url |-> Null],
     [handle |-> "bolt", name |-> "Bolt Ltd", description |-> "Fasteners",
      num_employees |-> Null, logo_url |-> <<"http://bolt.img">>]}

DEng == [title |-> <<TEng>>, salary |-> <<120>>, equity |-> <<1>>,
         companyHandle |-> <<"acme">>]
\* a payload that carries an id of its own, and no salary or equity
DPen == [id |-> <<9>>, title |-> <<TPen>>, companyHandle |-> <<"bolt">>]
\* payloads the store refuses
DNoCompany == [title |-> <<TArt>>, salary |-> <<50>>, equity |-> <<0>>,
               companyHandle |-> <<"nope">>]
DNoTitle == [salary |-> <<50>>, companyHandle |-> <<"acme">>]
\* payloads outside the ranges of the data model
DNegSalary == [title |-> <<TArt>>, salary |-> <<-1>>, equity |-> <<0>>,
               companyHandle |-> <<"acme">>]
DBigEquity == [title |-> <<TArt>>, salary |-> <<50>>, equity |-> <<150>>,
               companyHandle |-> <<"acme">>]

PEmpty == <<>>
PSalary == << <<"salary", <<500>>>> >>
PHandle == << <<"companyHandle", <<"bolt">>>> >>
PColumn == << <<"company_handle", <<"bolt">>>>, <<"title", <<TArt>>>> >>
\* patches that name the id: one handed out by the sequence, one that never is
PIdUsed == << <<"id", <<1>>>> >>
PIdFree == << <<"id", <<MaxId + 2>>>> >>
PNegSalary == << <<"salary", <<-5>>>> >>
PBigEquity == << <<"equity", <<200>>>>, <<"title", <<TEng>>>> >>

Ids == 1 .. (MaxId + 1)

Users == {[isAdmin |-> TRUE], [isAdmin |-> FALSE]}

Filters ==
    {f \in [title : {Null, << <<"e", "N">> >>},
            minSalary : {Null, <<-1>>, <<100>>},
            hasEquity : {Null, <<TRUE>>, <<FALSE>>}] : TRUE}

-----------------------------------------------------------------------------
(* Specifications *)

Init ==
    /\ jobs = {}
    /\ seq = 0
    /\ companies = CompanyRows
    /\ getReq = Idle
    /\ last = [op |-> "none", args |-> Null, err |-> OK, value |-> Null, stmts |-> <<>>]
    /\ created = <<>>
    /\ removed = {}

\* get() interleaving with the writes of the repository.
Next ==
    \/ \E data \in {DEng, DPen, DNoCompany} : create(data)
    \/ \E id \in Ids : getJob(id)
    \/ getCompany
    \/ \E id \in Ids : update(id, PColumn)
    \/ \E id \in Ids : remove(id)

Spec == Init /\ [][Next]_vars

Patches == {PSalary, PHandle, PIdUsed, PIdFree}

\* The repository called directly with every kind of payload and patch.
WriteNext ==
    \/ \E data \in {DEng, DPen, DNoCompany, DNoTitle} : create(data)
    \/ \E id \in Ids : getJob(id)
    \/ getCompany
    \/ \E id \in Ids : \E data \in Patches : update(id, data)
    \/ \E id \in Ids : remove(id)

WriteSpec == Init /\ [][WriteNext]_vars

\* The statements the repository issues, findAll's among them.
QueryNext ==
    \/ \E data \in {DEng, DPen} : create(data)
    \/ \E f \in Filters : findAll(f)
    \/ \E id \in Ids : \E data \in {PEmpty, PColumn} : update(id, data)
    \/ \E id \in Ids : remove(id)

QuerySpec == Init /\ [][QueryNext]_vars

\* The repository behind its routes.
HttpNext ==
    \/ \E user \in Users : \E body \in {DEng, DNegSalary, DBigEquity} :
           routerPost(user, body)
    \/ routerGetAll
    \/ \E id \in Ids : routerGet(id)
    \/ routerGetResume
    \/ \E user \in Users : \E id \in Ids :
           \E body \in {PSalary, PNegSalary, PBigEquity} : routerPatch(user, id, body)
    \/ \E user \in Users : \E id \in Ids : routerDelete(user, id)

HttpSpec == Init /\ [][HttpNext]_vars

-----------------------------------------------------------------------------
(* Properties *)

HasId(tbl, id) == \E r \in tbl : r.id = id

RowOf(tbl, id) == CHOOSE r \in tbl : r.id = id

\* A Company row as the repository returns it.
CompanyValue(c) ==
    [handle |-> c.handle, name |-> c.name, description |-> c.description,
     numEmployees |-> c.num_employees, logoUrl |-> c.logo_url]

\* A failure of the BadRequest kind: one that carries status 400.
IsBadRequest(err) == err.status = 400

C9_GetInterleaving ==
    [][/\ \A id \in Ids :
            getJob(id) =>
                IF HasId(jobs, id)
                THEN /\ getReq'.pc = "company"
                     /\ getReq'.job.id = id
                     /\ getReq'.job.title = RowOf(jobs, id).title
                     /\ getReq'.job.salary = RowOf(jobs, id).salary
                     /\ getReq'.job.equity = RowOf(jobs, id).equity
                     /\ getReq'.job.companyHandle = RowOf(jobs, id).company_handle
                     /\ last' = last
                ELSE /\ getReq' = Idle
                     /\ last'.op = "get"
                     /\ last'.err = NotFoundError
                     /\ Len(last'.stmts) = 1
       /\ (getReq # Idle /\ getReq' = Idle) =>
              /\ last'.op = "get"
              /\ last'.err = OK
              /\ \A k \in {"id", "title", "salary", "equity"} :
                     last'.value[k] = getReq.job[k]
              /\ last'.value.company # Null
              /\ \E c \in companies :
                     /\ <<c.handle>> = getReq.job.companyHandle
                     /\ last'.value.company = <<CompanyValue(c)>>
       /\ companies' = companies]_vars

\* A get() succeeded on a job that was removed between its two lookups.
C9_Witness ==
    /\ last.op = "get"
    /\ last.err = OK
    /\ ~ HasId(jobs, last.args.id)
    /\ last.args.id \in removed

-----------------------------------------------------------------------------
(* Properties of the writes *)

\* The name a column has in the repository's values.
PublicName(c) == IF c = "company_handle" THEN "companyHandle" ELSE c

\* Whether a patch names a column, and the value it gives it.
Names(data, c) == \E i \in DOMAIN data : data[i][1] \in {c, PublicName(c)}

PatchValue(data, c) ==
    LET i == CHOOSE j \in DOMAIN data : data[j][1] \in {c, PublicName(c)}
    IN  IF c = "id" THEN data[i][2][1] ELSE data[i][2]

\* The patches of the specifications that name at least one field.
NonEmptyPatches == (Patches \cup {PColumn}) \ {PEmpty}

\* C2: once remove(id) has succeeded, a get(id), an update(id, patch) with a
\* patch that is not empty and a remove(id) each fail with NotFound; and a
\* remove(id) that matches no row fails with NotFound and leaves jobs as it was.
C2_RemoveIsPermanent ==
    [][/\ \A id \in removed :
            /\ getJob(id) =>
                   (getReq' = Idle /\ last'.op = "get" /\ last'.err = NotFoundError)
            /\ \A data \in NonEmptyPatches :
                   update(id, data) => last'.err = NotFoundError
            /\ remove(id) => last'.err = NotFoundError
       /\ \A id \in Ids :
            (remove(id) /\ ~ HasId(jobs, id)) =>
                (last'.err = NotFoundError /\ jobs' = jobs)]_vars

\* C3: an update(id, patch) of an existing job with a patch that is not empty
\* gives the row the patch's value in every column the patch names, leaves its
\* other columns as they were, and leaves every other row as it was.
C3_UpdateChangesExactlyPatch ==
    [][\A id \in Ids : \A data \in NonEmptyPatches :
          (update(id, data) /\ HasId(jobs, id)) =>
              LET old == RowOf(jobs, id)
                  new == [c \in JobColumns |->
                             IF Names(data, c) THEN PatchValue(data, c) ELSE old[c]]
              IN  jobs' = (jobs \ {old}) \cup {new}]_vars

\* C6: an update(id, patch) with a patch that is not empty fails with NotFound
\* and changes no row when no job has the id; otherwise it returns, after its
\* one statement, a record of exactly id, title, salary, equity and
\* companyHandle holding the values of the row as stored.
C6_UpdateResult ==
    [][\A id \in Ids : \A data \in NonEmptyPatches :
          update(id, data) =>
              IF ~ HasId(jobs, id)
              THEN last'.err = NotFoundError /\ jobs' = jobs
              ELSE /\ last'.err = OK
                   /\ Len(last'.stmts) = 1
                   /\ DOMAIN last'.value =
                          {"id", "title", "salary", "equity", "companyHandle"}
                   /\ \E r \in jobs' :
                          /\ last'.value.id = r.id
                          /\ last'.value.title = r.title
                          /\ last'.value.salary = r.salary
                          /\ last'.value.equity = r.equity
                          /\ last'.value.companyHandle = r.company_handle]_vars

\* C8: the ids of the stored jobs are pairwise distinct, and an id that enters
\* the table is the one the sequence hands out in that step: no step gives an
\* existing job another id, and none stores an id the caller chose.
C8_IdsAssignedOnce ==
    [][/\ \A r1 \in jobs' : \A r2 \in jobs' : r1.id = r2.id => r1 = r2
       /\ \A r \in jobs' : HasId(jobs, r.id) \/ (seq' = seq + 1 /\ r.id = seq')]_vars

-----------------------------------------------------------------------------
(* Properties of findAll and of the statements *)

Negative(f) == Field(f, "minSalary") # Null /\ Field(f, "minSalary")[1] < 0

\* sub occurs in s at some position, letter case ignored.
Contains(s, sub) ==
    \E i \in 0 .. (Len(s) - Len(sub)) :
        SubSeq(LowerSeq(s), i + 1, i + Len(sub)) = LowerSeq(sub)

Matches(r, f) ==
    /\ Field(f, "title") # Null => Contains(r.title[1], Field(f, "title")[1])
    /\ Field(f, "minSalary") # Null =>
           (r.salary # Null /\ r.salary[1] >= Field(f, "minSalary")[1])
    /\ Field(f, "hasEquity") = <<TRUE>> => (r.equity # Null /\ r.equity[1] > 0)

JobValue(r) ==
    [title |-> r.title, salary |-> r.salary, equity |-> r.equity,
     companyHandle |-> r.company_handle]

C5_FindAllReturnsMatches ==
    (last.op = "findAll" /\ ~ Negative(last.args.searchFilters)) =>
        LET hit == {r \in jobs : Matches(r, last.args.searchFilters)}
        IN  /\ last.err = OK
            /\ Len(last.value) = Cardinality(hit)
            /\ \A r \in hit : \E i \in DOMAIN last.value :
                   \A k \in DOMAIN JobValue(r) : last.value[i][k] = JobValue(r)[k]
            /\ \A i \in DOMAIN last.value : \A j \in DOMAIN last.value :
                   i < j => TitleLeq(last.value[i].title[1], last.value[j].title[1])

\* What the original and the amended C10 share.  s is a statement of findAll
\* for the filter f: the conditions present are those of the filter; the
\* placeholders, in the order of the text, are $1..$n for the n bound values;
\* the salary condition's placeholder is bound to minSalary and the title
\* condition's to the title between two % signs; without a filter there is no
\* condition and no value.
FindAllConsistent(s, f) ==
    LET bound == SelectSeq(s.where, LAMBDA c : c.ph # 0)
        has(col) == \E i \in DOMAIN s.where : s.where[i].col = col
    IN  /\ Len(bound) = Len(s.params)
        /\ \A i \in DOMAIN bound : bound[i].ph = i
        /\ has("salary") <=> Field(f, "minSalary") # Null
        /\ has("title") <=> Field(f, "title") # Null
        /\ has("equity") <=> Field(f, "hasEquity") = <<TRUE>>
        /\ \A i \in DOMAIN s.where : \A j \in DOMAIN s.where :
               s.where[i].col = s.where[j].col => i = j
        /\ \A i \in DOMAIN s.where :
               LET c == s.where[i]
               IN  /\ c.col = "salary" =>
                          (c.ph \in DOMAIN s.params /\ s.params[c.ph] = f.minSalary)
                   /\ c.col = "title" =>
                          (/\ c.ph \in DOMAIN s.params
                           /\ s.params[c.ph] = << (<<"%">> \o f.title[1]) \o <<"%">> >>)

\* s is the statement of update(id, data): assignment i is of key i and uses
\* $i, bound to the key's value; the id is bound last, as $(m+1).
UpdateConsistent(s, id, data) ==
    /\ Len(s.set) = Len(data)
    /\ Len(s.params) = Len(data) + 1
    /\ \A i \in DOMAIN data :
           /\ s.set[i].ph = i
           /\ data[i][1] \in {s.set[i].col, PublicName(s.set[i].col)}
           /\ s.params[i] = data[i][2]
    /\ s.idPh = Len(data) + 1
    /\ s.params[s.idPh] = id

StatementsConsistent ==
    /\ (last.op = "findAll" /\ last.stmts # <<>>) =>
           FindAllConsistent(last.stmts[1], last.args.searchFilters)
    /\ (last.op = "update" /\ last.stmts # <<>>) =>
           UpdateConsistent(last.stmts[1], last.args.id, last.args.data)

\* C10 as stated: the statements are consistent, and every condition of a
\* findAll, the equity condition too, brings one bound value.
C10_EveryConditionBindsOne ==
    /\ StatementsConsistent
    /\ (last.op = "findAll" /\ last.stmts # <<>>) =>
           /\ Len(last.stmts[1].params) = Len(last.stmts[1].where)
           /\ \A i \in DOMAIN last.stmts[1].where : last.stmts[1].where[i].ph # 0

\* C10 amended: the statements are consistent; the title and the minSalary
\* condition each bring one bound value, and the equity condition compares
\* with the literal 0 and brings none.
C10_PlaceholdersMatchValues ==
    /\ StatementsConsistent
    /\ (last.op = "findAll" /\ last.stmts # <<>>) =>
           LET s == last.stmts[1]
           IN  /\ Len(s.params) =
                      Cardinality({i \in DOMAIN s.where : s.where[i].col # "equity"})
               /\ \A i \in DOMAIN s.where :
                      s.where[i].col = "equity" => s.where[i].ph = 0

\* A findAll with all three filters sent its statement: three conditions, two values.
C10_Witness ==
    /\ last.op = "findAll"
    /\ last.stmts # <<>>
    /\ Len(last.stmts[1].where) = 3
    /\ Len(last.stmts[1].params) = 2

-----------------------------------------------------------------------------
(* Properties of the routes *)

SalaryOk(v) == v = Null \/ v[1] >= 0

EquityOk(v) == v = Null \/ (0 <= v[1] /\ v[1] <= 100)

====
